---- MODULE Spec2Model ----
(***************************************************************************)
(* A model of anchorna's anchor search (anchorna/core.py) and of its       *)
(* anchor data model (anchorna/util.py).                                   *)
(*                                                                         *)
(* Conventions.                                                            *)
(*  - A residue is a small integer: GAP stands for the gap character '-',  *)
(*    1 and 2 for two amino acids.  A sequence or word is a TLA+ sequence  *)
(*    of residues.  Python indices are 0-based, TLA+ sequences 1-based:    *)
(*    Slice(s, i, j) is Python's s[i:j].                                   *)
(*  - A sequence id is its position in aas; core.find_anchors_winlen moves *)
(*    the guide to the front, so the guide id is 1.                        *)
(*  - Python's None is the value None (an index is never negative).        *)
(*  - core.py names the fluke flag `poor` and the guide `gseqid`; util.py  *)
(*    names the same things `above_thres` (= not poor) and `refid`.  The   *)
(*    model keeps util.py's names inside the Anchor operators.             *)
(*  - statistics.median is kept exact by storing twice the median.         *)
(***************************************************************************)
EXTENDS Integers, Sequences, FiniteSets, TLC

\* ---------------------------------------------------------------- bounds
MaxLen == 4          \* length of the guide of the find_my_anchors model
MaxSearchLen == 4    \* longest sequence of the best-match search model
MaxShift == 2        \* largest explicit maxshift / maxshift_right

\* ------------------------------------------------------------- constants
GAP == 0
None == -1

Residues == {1, 2}
ResiduesOrGap == Residues \cup {GAP}

\* sugar.data.submat(scoring): a substitution matrix whose diagonal dominates
\* (as in blosum62): 2 and 3 on the diagonal, -1 elsewhere.
submat == [a \in ResiduesOrGap |-> [b \in ResiduesOrGap |->
             IF a = b THEN (IF a = 2 THEN 3 ELSE 2) ELSE -1]]

\* ----------------------------------------------------------- python helpers
Min(a, b) == IF a <= b THEN a ELSE b
Max(a, b) == IF a >= b THEN a ELSE b
Abs(a) == IF a >= 0 THEN a ELSE -a

\* Python's s[i:j] for 0 <= i
Slice(s, i, j) == SubSeq(s, i + 1, Min(j, Len(s)))

\* Python's s[k:]; a negative k counts from the end
SliceFrom(s, k) == SubSeq(s, (IF k >= 0 THEN k ELSE Max(0, Len(s) + k)) + 1, Len(s))

\* Python's range(lo, hi) as a sequence
Range(lo, hi) == [k \in 1..Max(0, hi - lo) |-> lo + k - 1]

\* Python's tuple order on pairs (score, index)
PairGT(p, q) == p[1] > q[1] \/ (p[1] = q[1] /\ p[2] > q[2])

\* all sequences over alphabet A of length lo..hi
SeqsOf(A, lo, hi) == UNION {[1..n -> A] : n \in lo..hi}

\* ------------------------------------------------------------- util.corrscore
RECURSIVE corrscore_from(_, _, _)
corrscore_from(seq1, seq2, k) ==
    IF k > Min(Len(seq1), Len(seq2)) THEN 0
    ELSE (IF seq1[k] # GAP /\ seq2[k] # GAP THEN submat[seq1[k]][seq2[k]] ELSE 0)
         + corrscore_from(seq1, seq2, k + 1)

corrscore(seq1, seq2) == corrscore_from(seq1, seq2, 1)

\* ------------------------------------------------------------- core.maxes
\* The loop of maxes over the list a with the identity key: st = <<kmax, max_list>>.
RECURSIVE maxes_loop(_, _, _, _)
maxes_loop(a, k, kmax, max_list) ==
    IF k > Len(a) THEN max_list
    ELSE IF PairGT(a[k], kmax) THEN maxes_loop(a, k + 1, a[k], <<a[k]>>)
    ELSE IF a[k] = kmax THEN maxes_loop(a, k + 1, kmax, Append(max_list, a[k]))
    ELSE maxes_loop(a, k + 1, kmax, max_list)

\* maxes(a, key=None, default): the default is returned as it is
maxes(a, default) ==
    IF Len(a) = 0 THEN default ELSE maxes_loop(a, 1, a[1], <<>>)

\* ------------------------------------------- core.shift_and_find_best_word
\* the list comprehension: (corrscore(seq[i:i+w], word), i) for i in range(..)
SearchLo(starti, maxshift_right) == Max(0, starti - maxshift_right)
SearchHi(seq, starti, w, maxshift) == Min(Len(seq) - w + 1, starti + maxshift + 1)

Candidates(seq, word, starti, w, maxshift, maxshift_right) ==
    LET r == Range(SearchLo(starti, maxshift_right), SearchHi(seq, starti, w, maxshift))
    IN  [k \in 1..Len(r) |-> <<corrscore(Slice(seq, r[k], r[k] + w), word), r[k]>>]

\* min((abs(ind - starti), sim, ind) for sim, ind in siminds)[1:]
RECURSIVE MinShift(_, _, _, _)
MinShift(siminds, starti, k, best) ==
    IF k > Len(siminds) THEN best
    ELSE LET c == siminds[k]
             lt == \/ Abs(c[2] - starti) < Abs(best[2] - starti)
                   \/ /\ Abs(c[2] - starti) = Abs(best[2] - starti)
                      /\ PairGT(best, c)
         IN  MinShift(siminds, starti, k + 1, IF lt THEN c ELSE best)

\* Result: [err, sim, ind].  With an empty range maxes returns the default
\* (0, None), a tuple and not a list of tuples: the generator then unpacks
\* the integer 0 into (sim, ind) and Python raises TypeError.
shift_and_find_best_word(seq, word, starti, w, maxshift0, maxshift_right0) ==
    LET maxshift == IF maxshift0 = None THEN Len(seq) ELSE maxshift0
        maxshift_right == IF maxshift_right0 = None THEN maxshift ELSE maxshift_right0
        cands == Candidates(seq, word, starti, w, maxshift, maxshift_right)
        siminds == maxes(cands, <<0, None>>)
    IN  IF Len(cands) = 0
        THEN [err |-> "TypeError", sim |-> 0, ind |-> None]
        ELSE LET b == MinShift(siminds, starti, 2, siminds[1])
             IN  [err |-> "none", sim |-> b[1], ind |-> b[2]]

VARIABLES
    pc,        \* where the modelled routine stands
    call,      \* arguments of a shift_and_find_best_word call
    ret,       \* its result
    aas,       \* the sequences, guide first (aas[id] is the sequence with that id)
    opts,      \* the options of the run (w, search_range, thresholds)
    asm,       \* the local state of one anchor_at_pos call
    scan,      \* the worker pool and the results list of _start_parallel_jobs
    anchors,   \* the AnchorList of find_my_anchors
    removed_anchors,  \* the AnchorList of removed anchors, or None (isnone)
    locals     \* a1, a2 of the last pass of remove_contradicting_anchors

vars == <<pc, call, ret, aas, opts, asm, scan, anchors, removed_anchors, locals>>

\* ------------------------------------------------------------- util.Fluke
Fluke(seqid, score, start, stop, offset, word, above_thres) ==
    [seqid |-> seqid, score |-> score, start |-> start, stop |-> stop,
     offset |-> offset, word |-> word, above_thres |-> above_thres]

FlukeLen(f) == f.stop - f.start

\* Python's [x for x in s if P(x)]
RECURSIVE FilterSeq(_, _)
FilterSeq(s, keep) ==
    IF s = <<>> THEN <<>>
    ELSE (IF Head(s).above_thres = keep THEN <<Head(s)>> ELSE <<>>) \o FilterSeq(Tail(s), keep)

\* ------------------------------------------------------------ util.Anchor
\* Anchor.__init__: the list itself holds the flukes above the threshold,
\* `missing` the others.
Anchor(flukes, refid) ==
    [refid |-> refid, data |-> FilterSeq(flukes, TRUE), missing |-> FilterSeq(flukes, FALSE)]

NoAnchor == [refid |-> 0, data |-> <<>>, missing |-> <<>>]

AllFlukes(a) == a.data \o a.missing
SeqIds(fl) == {fl[k].seqid : k \in 1..Len(fl)}
HasRef(a) == a.refid \in SeqIds(a.data)
\* Anchor.ref: self.d[self.refid] (KeyError without HasRef)
Ref(a) == a.data[CHOOSE k \in 1..Len(a.data) : a.data[k].seqid = a.refid]

\* statistics.median of the scores of word x against the words W, doubled
RECURSIVE SortedScores(_, _)
SortedScores(x, W) ==
    IF W = {} THEN <<>>
    ELSE LET w == CHOOSE u \in W : \A v \in W : corrscore(x, u) <= corrscore(x, v)
         IN  <<corrscore(x, w)>> \o SortedScores(x, W \ {w})

Median2(s) ==
    IF Len(s) % 2 = 1 THEN 2 * s[(Len(s) + 1) \div 2]
    ELSE s[Len(s) \div 2] + s[Len(s) \div 2 + 1]

\* a variant that takes the words of all flukes, poor ones included
ScoreWordsAllFlukes(a) == {(a.data \o a.missing)[k].word : k \in 1..Len(a.data \o a.missing)}

\* Anchor._calculate_scores: the words are those of the flukes of the list
\* (the flukes above the threshold); median() of no data raises StatisticsError
ScoreWords(a) == {a.data[k].word : k \in 1..Len(a.data)}
CanCalculateScores(a) == ScoreWords(a) # {} \/ AllFlukes(a) = <<>>
Rescore(fl, W) == [k \in 1..Len(fl) |->
                     [fl[k] EXCEPT !.score = Median2(SortedScores(fl[k].word, W))]]
calculate_scores(a) ==
    [a EXCEPT !.data = Rescore(a.data, ScoreWords(a)),
              !.missing = Rescore(a.missing, ScoreWords(a))]

\* Anchor.minscore
RECURSIVE MinOfScores(_)
MinOfScores(fl) ==
    IF Len(fl) = 1 THEN fl[1].score ELSE Min(fl[1].score, MinOfScores(Tail(fl)))
minscore(a) == MinOfScores(a.data)

\* Python's sorted(s, key=...): the indices of s in sorted order, for the keys
\* of its elements; equal keys keep their order (the sort is stable)
Rank(keys, i) ==
    Cardinality({j \in 1..Len(keys) : keys[j] < keys[i] \/ (keys[j] = keys[i] /\ j < i)}) + 1
SortedIdx(keys) == [p \in 1..Len(keys) |-> CHOOSE i \in 1..Len(keys) : Rank(keys, i) = p]
SortedBy(s, keys) == [p \in 1..Len(s) |-> s[SortedIdx(keys)[p]]]

\* Python's zip: the pairs up to the shorter length
ZipLen(s, t) == Min(Len(s), Len(t))

\* key(f): '' if f.seqid == a1.refid else f.seqid (ids are positive)
FlukeKey(f, refid) == IF f.seqid = refid THEN 0 ELSE f.seqid
\* sorted(a, key=key) with the key of overlaps_with and contradicts
SortedFlukes(fl, refid) == SortedBy(fl, [k \in 1..Len(fl) |-> FlukeKey(fl[k], refid)])
\* sorted(a.data + a.missing, key=key) with the key of join_with:
\* (not f.above_thres, '' if f.seqid == a1.refid else f.seqid)
JoinKey(f, refid, nids) == (IF f.above_thres THEN 0 ELSE nids + 1) + FlukeKey(f, refid)
SortedForJoin(a, refid) ==
    LET fl == a.data \o a.missing
        big == Len(aas)
    IN  SortedBy(fl, [k \in 1..Len(fl) |-> JoinKey(fl[k], refid, big)])

\* a variant that looks at the guide intervals and the id sets only
overlaps_withGuideOnly(a1, a2) ==
    /\ Max(Ref(a1).start, Ref(a2).start) <= Min(Ref(a1).stop, Ref(a2).stop)
    /\ SeqIds(a1.missing) = SeqIds(a2.missing)
    /\ SeqIds(a1.data) = SeqIds(a2.data)

\* Anchor.overlaps_with
overlaps_with(a1, a2) ==
    /\ Max(Ref(a1).start, Ref(a2).start) <= Min(Ref(a1).stop, Ref(a2).stop)
    /\ SeqIds(a1.missing) = SeqIds(a2.missing)
    /\ SeqIds(a1.data) = SeqIds(a2.data)
    /\ LET s1 == SortedFlukes(a1.data, a1.refid)
           s2 == SortedFlukes(a2.data, a1.refid)
       IN  \A k \in 1..ZipLen(s1, s2) :
               s1[k].start - s2[k].start = Ref(a1).start - Ref(a2).start

\* Anchor.contradicts
contradicts(self, other) ==
    LET swap == Ref(self).start > Ref(other).start
        a1 == IF swap THEN other ELSE self
        a2 == IF swap THEN self ELSE other
        s1 == SortedFlukes(a1.data, self.refid)
        s2 == SortedFlukes(a2.data, self.refid)
    IN  ~ \A k \in 1..ZipLen(s1, s2) : s1[k].start <= s2[k].start

\* a variant that never cuts the joined fluke to the length of the first one
JoinFlukesNoCut(f1, f2, correctl0) ==
    LET start == Min(f1.start, f2.start)
        stop == Max(f1.stop, f2.stop)
        l == stop - start
        overlaplen == FlukeLen(f1) + FlukeLen(f2) - l
        nword == IF f1.start <= f2.start
                 THEN f1.word \o SliceFrom(f2.word, overlaplen)
                 ELSE f2.word \o SliceFrom(f1.word, overlaplen)
    IN  [ok |-> f1.seqid = f2.seqid /\ f1.above_thres = f2.above_thres,
         correctl |-> IF f1.above_thres /\ correctl0 = None THEN l ELSE correctl0,
         fluke |-> Fluke(f1.seqid, None, start, stop, f1.offset, nword,
                         f1.above_thres \/ f2.above_thres)]

\* a variant that puts the word of the later fluke first
JoinFlukesLaterFirst(f1, f2, correctl0) ==
    LET start == Min(f1.start, f2.start)
        stop == Max(f1.stop, f2.stop)
        l == stop - start
        overlaplen == FlukeLen(f1) + FlukeLen(f2) - l
        nword == IF f1.start <= f2.start
                 THEN f2.word \o SliceFrom(f1.word, overlaplen)
                 ELSE f1.word \o SliceFrom(f2.word, overlaplen)
    IN  [ok |-> f1.seqid = f2.seqid /\ f1.above_thres = f2.above_thres,
         correctl |-> IF f1.above_thres /\ correctl0 = None THEN l ELSE correctl0,
         fluke |-> Fluke(f1.seqid, None, start, stop, f1.offset, nword,
                         f1.above_thres \/ f2.above_thres)]

\* The loop body of join_with for the pair (f1, f2); correctl is None before
\* the first fluke above the threshold.  Result: [ok, fluke, correctl].
JoinFlukes(f1, f2, correctl0) ==
    LET start == Min(f1.start, f2.start)
        stop0 == Max(f1.stop, f2.stop)
        l0 == Max(f1.stop, f2.stop) - start
        correctl == IF f1.above_thres /\ correctl0 = None THEN l0 ELSE correctl0
        gap == correctl # l0
        l == IF gap THEN correctl ELSE l0
        stop == IF gap THEN start + l ELSE stop0
        overlaplen == FlukeLen(f1) + FlukeLen(f2) - l
        nword == IF f1.start <= f2.start
                 THEN f1.word \o SliceFrom(f2.word, overlaplen)
                 ELSE f2.word \o SliceFrom(f1.word, overlaplen)
        ok == /\ f1.seqid = f2.seqid
              /\ f1.above_thres = f2.above_thres
              /\ f1.offset = f2.offset
              /\ f1.above_thres => correctl = l0
              /\ gap => (~f1.above_thres /\ ~f2.above_thres)
              /\ Len(nword) = l
    IN  [ok |-> ok, correctl |-> correctl,
         fluke |-> Fluke(f1.seqid, None, start, stop, f1.offset, nword,
                         f1.above_thres \/ f2.above_thres)]

RECURSIVE JoinLoop(_, _, _, _, _)
JoinLoop(s1, s2, k, correctl, acc) ==
    IF k > ZipLen(s1, s2) THEN [ok |-> TRUE, flukes |-> acc]
    ELSE LET r == JoinFlukes(s1[k], s2[k], correctl)
         IN  IF ~r.ok THEN [ok |-> FALSE, flukes |-> acc]
             ELSE JoinLoop(s1, s2, k + 1, r.correctl, Append(acc, r.fluke))

\* a variant that keeps the contained anchor
join_withContained(a1, a2) ==
    IF ~overlaps_with(a1, a2) THEN [err |-> "ValueError", anchor |-> NoAnchor]
    ELSE IF Ref(a1).start <= Ref(a2).start /\ Ref(a1).stop >= Ref(a2).stop
    THEN [err |-> "none", anchor |-> a2]
    ELSE IF Ref(a1).start >= Ref(a2).start /\ Ref(a1).stop <= Ref(a2).stop
    THEN [err |-> "none", anchor |-> a1]
    ELSE LET r == JoinLoop(SortedForJoin(a1, a1.refid), SortedForJoin(a2, a1.refid),
                           1, None, <<>>)
         IN  IF ~r.ok THEN [err |-> "AssertionError", anchor |-> NoAnchor]
             ELSE [err |-> "none", anchor |-> calculate_scores(Anchor(r.flukes, a1.refid))]

\* Anchor.join_with: [err, anchor]
join_with(a1, a2) ==
    IF ~overlaps_with(a1, a2) THEN [err |-> "ValueError", anchor |-> NoAnchor]
    ELSE IF Ref(a1).start <= Ref(a2).start /\ Ref(a1).stop >= Ref(a2).stop
    THEN [err |-> "none", anchor |-> a1]
    ELSE IF Ref(a1).start >= Ref(a2).start /\ Ref(a1).stop <= Ref(a2).stop
    THEN [err |-> "none", anchor |-> a2]
    ELSE LET r == JoinLoop(SortedForJoin(a1, a1.refid), SortedForJoin(a2, a1.refid),
                           1, None, <<>>)
         IN  IF ~r.ok THEN [err |-> "AssertionError", anchor |-> NoAnchor]
             ELSE [err |-> "none", anchor |-> calculate_scores(Anchor(r.flukes, a1.refid))]

\* --------------------------------------------------------- util.AnchorList
\* Anchor is a UserList: a1 == a2 compares the lists of flukes
AnchorEq(a, b) == a.data = b.data

\* list.remove(a): the first element equal to a is removed
RemoveFirst(l, a) ==
    LET k == CHOOSE i \in 1..Len(l) : AnchorEq(l[i], a) /\ \A j \in 1..(i - 1) : ~AnchorEq(l[j], a)
    IN  SubSeq(l, 1, k - 1) \o SubSeq(l, k + 1, Len(l))

\* sorted(self, key=lambda a: a.minscore, reverse=True) and sorted(self, key=...)
ByMinscoreDesc(l) == SortedBy(l, [k \in 1..Len(l) |-> -minscore(l[k])])
ByMinscoreAsc(l) == SortedBy(l, [k \in 1..Len(l) |-> minscore(l[k])])

\* the first of the pairs <<p, q>> in the order Python iterates them
FirstPair(P) == CHOOSE x \in P : \A y \in P : x[1] < y[1] \/ (x[1] = y[1] /\ x[2] <= y[2])

\* a variant that looks at neighbours of the sorted list only
MergePairsNeighbours(l) ==
    LET s == ByMinscoreDesc(l)
    IN  {x \in (1..Len(l)) \X (1..Len(l)) : x[2] = x[1] + 1 /\ overlaps_with(s[x[1]], s[x[2]])}

\* merge_neighbor_anchors: the pairs of itertools.combinations(sorted, 2) that
\* overlap, as index pairs of the sorted list
MergePairs(l) ==
    LET s == ByMinscoreDesc(l)
    IN  {x \in (1..Len(l)) \X (1..Len(l)) : x[1] < x[2] /\ overlaps_with(s[x[1]], s[x[2]])}

\* one pass of its while loop with a pair found: [err, list]
MergeOnce(l) ==
    LET s == ByMinscoreDesc(l)
        x == FirstPair(MergePairs(l))
        a1 == s[x[1]]
        a2 == s[x[2]]
        j == join_with(a1, a2)
    IN  [err |-> j.err,
         list |-> IF j.err # "none" THEN RemoveFirst(RemoveFirst(l, a1), a2)
                  ELSE Append(RemoveFirst(RemoveFirst(l, a1), a2), j.anchor)]

\* a variant that skips the pairs of equal minscore too
RemovePairsStrict(l) ==
    LET a1s == ByMinscoreDesc(l)
        a2s == ByMinscoreAsc(l)
    IN  {x \in (1..Len(l)) \X (1..Len(l)) :
            /\ minscore(a1s[x[1]]) > minscore(a2s[x[2]])
            /\ contradicts(a1s[x[1]], a2s[x[2]])}

\* remove_contradicting_anchors: the pairs of itertools.product(a1s, a2s) at
\* which the for loop breaks.  a1s and a2s are sorted once and lose the removed
\* anchors; sorting the current list gives the same lists (the sort is stable).
RemovePairs(l) ==
    LET a1s == ByMinscoreDesc(l)
        a2s == ByMinscoreAsc(l)
    IN  {x \in (1..Len(l)) \X (1..Len(l)) :
            /\ ~(AnchorEq(a1s[x[1]], a2s[x[2]]) \/ minscore(a1s[x[1]]) < minscore(a2s[x[2]]))
            /\ contradicts(a1s[x[1]], a2s[x[2]])}

\* a variant that removes a1, the anchor of the higher minscore
RemovePickHigher(l) ==
    LET x == FirstPair(RemovePairs(l))
    IN  <<ByMinscoreAsc(l)[x[2]], ByMinscoreDesc(l)[x[1]]>>

\* the pair <<a1, a2>> of one pass of its while loop; a2 is removed
RemovePick(l) ==
    LET x == FirstPair(RemovePairs(l))
    IN  <<ByMinscoreDesc(l)[x[1]], ByMinscoreAsc(l)[x[2]]>>

\* merge_neighbor_anchors as a whole: [err, list]
RECURSIVE merge_neighbor_anchors(_)
merge_neighbor_anchors(l) ==
    IF MergePairs(l) = {} THEN [err |-> "none", list |-> l]
    ELSE LET r == MergeOnce(l)
         IN  IF r.err # "none" THEN r ELSE merge_neighbor_anchors(r.list)

\* remove_contradicting_anchors as a whole: the list that is left
RECURSIVE remove_contradicting_anchors(_)
remove_contradicting_anchors(l) ==
    IF RemovePairs(l) = {} THEN l
    ELSE remove_contradicting_anchors(RemoveFirst(l, RemovePick(l)[2]))

\* core.py lines 273-274: anchors = continue_with
ContinueWithAnchors(l) == l

\* ---------------------------------------------------- core.anchor_at_pos
NSeqs == Len(aas)
GuideId == 1

\* the heap toadd holds (-score, abs(j-i), score, j, id_); an entry is kept as
\* <<score, j, id_>> and the list is kept in the order heappop returns
HeapLT(a, b, i) ==
    \/ a[1] > b[1]
    \/ a[1] = b[1] /\ Abs(a[2] - i) < Abs(b[2] - i)
    \/ a[1] = b[1] /\ Abs(a[2] - i) = Abs(b[2] - i) /\ a[2] < b[2]
    \/ a[1] = b[1] /\ Abs(a[2] - i) = Abs(b[2] - i) /\ a[2] = b[2] /\ a[3] < b[3]

RECURSIVE heappush(_, _, _)
heappush(h, e, i) ==
    IF h = <<>> THEN <<e>>
    ELSE IF HeapLT(e, Head(h), i) THEN <<e>> \o h
    ELSE <<Head(h)>> \o heappush(Tail(h), e, i)

\* the search of line 110 for sequence id_ with the current gword
SearchFor(st, id) ==
    LET aa == aas[id]
        gaa == aas[GuideId]
        maxshiftl == opts.search_range + Max(0, Len(aa) - Len(gaa))
        maxshiftr == opts.search_range + Max(0, Len(gaa) - Len(aa))
    IN  shift_and_find_best_word(aa, st.gword, st.i, opts.w, maxshiftl, maxshiftr)

\* a variant that pushes the candidate of one pending sequence only
PushOne(st, ids, h) ==
    IF ids = {} THEN h
    ELSE LET id == CHOOSE x \in ids : TRUE
             r == SearchFor(st, id)
         IN  heappush(h, <<r.sim, r.ind, id>>, st.i)

RECURSIVE PushAll(_, _, _)
PushAll(st, ids, h) ==
    IF ids = {} THEN h
    ELSE LET id == CHOOSE x \in ids : TRUE
             r == SearchFor(st, id)
         IN  PushAll(st, ids \ {id}, heappush(h, <<r.sim, r.ind, id>>, st.i))

\* lines 92-104: the state at the head of the outer while loop
AsmStart(i) ==
    LET gword == Slice(aas[GuideId], i, i + opts.w)
        gscore == corrscore(gword, gword)
    IN  [pc |-> IF gscore < opts.thr_score_add_anchor THEN "none"
                ELSE IF NSeqs > 1 THEN "for" ELSE "build",
         err |-> "none", i |-> i, gword |-> gword, words |-> {gword},
         todo |-> 2..NSeqs, toadd |-> <<>>, res |-> <<<<gscore, i, GuideId>>>>,
         nfails |-> 0, anchor |-> NoAnchor]

\* a variant that compares with the quota instead of 1 - quota
QuotaExceededWrongSide(nfails) == 2 * nfails > Len(aas) * opts.quota2

\* nfails / len(aas) > 1 - thr_quota_add_anchor, with the quota counted in
\* halves (0.5 and 1.0 are exact in floating point, and so is the comparison)
QuotaExceeded(nfails) == 2 * nfails > NSeqs * (2 - opts.quota2)

Raise(st, e) == [st EXCEPT !.pc = "raise", !.err = e]

\* lines 106-116: the for loop over todo.  A search that raises ends the call;
\* j is None raises ValueError.
AsmFor(st) ==
    LET rs == [id \in st.todo |-> SearchFor(st, id)]
    IN  IF \E id \in st.todo : rs[id].err # "none"
        THEN Raise(st, rs[CHOOSE id \in st.todo : rs[id].err # "none"].err)
        ELSE IF \E id \in st.todo : rs[id].ind = None
        THEN Raise(st, "ValueError")
        ELSE [st EXCEPT !.pc = "pop", !.toadd = PushAll(st, st.todo, st.toadd)]

\* lines 117-132: one pass of the inner while loop (or its else clause)
AsmPop(st) ==
    IF st.toadd = <<>>
    THEN IF st.todo # {} THEN Raise(st, "AssertionError")
         ELSE [st EXCEPT !.pc = "build"]
    ELSE LET e == Head(st.toadd)
             score == e[1]
             j == e[2]
             id == e[3]
             rest == [st EXCEPT !.toadd = Tail(st.toadd)]
             fail == score < opts.thr_score_add_anchor
             nfails == IF fail THEN st.nfails + 1 ELSE st.nfails
             gword == Slice(aas[id], j, j + opts.w)
             todo == st.todo \ {id}
             isnew == gword \notin st.words /\ score >= opts.score_add_word
         IN  IF id \notin st.todo THEN rest
             ELSE IF fail /\ QuotaExceeded(nfails)
             THEN [rest EXCEPT !.pc = "none", !.nfails = nfails]
             ELSE [rest EXCEPT !.nfails = nfails, !.gword = gword,
                               !.res = Append(st.res, <<score, j, id>>),
                               !.todo = todo,
                               !.words = IF isnew THEN st.words \cup {gword} ELSE st.words,
                               !.pc = IF ~isnew THEN "pop"
                                      ELSE IF todo # {} THEN "for" ELSE "build"]

\* a variant that calls the flukes below thr_score_add_anchor poor
ResFlukesByAnchorThreshold(st) ==
    [k \in 1..Len(st.res) |->
        LET score == st.res[k][1]
            j == st.res[k][2]
            id == st.res[k][3]
        IN  Fluke(id, None, j, j + opts.w, 0, Slice(aas[id], j, j + opts.w),
                  ~(score < opts.thr_score_add_anchor))]

\* lines 133-142: the flukes, the anchor and its scores
ResFlukes(st) ==
    [k \in 1..Len(st.res) |->
        LET score == st.res[k][1]
            j == st.res[k][2]
            id == st.res[k][3]
        IN  Fluke(id, None, j, j + opts.w, 0, Slice(aas[id], j, j + opts.w),
                  ~(score < opts.score_add_word))]

AsmBuild(st) ==
    LET a == Anchor(ResFlukes(st), GuideId)
    IN  IF ~CanCalculateScores(a) THEN Raise(st, "StatisticsError")
        ELSE [st EXCEPT !.pc = "done", !.anchor = calculate_scores(a)]

AsmStep(st) ==
    IF st.pc = "for" THEN AsmFor(st)
    ELSE IF st.pc = "pop" THEN AsmPop(st)
    ELSE AsmBuild(st)

AsmRunning(st) == st.pc \in {"for", "pop", "build"}

\* the whole call: its final state (pc is "done", "none" or "raise")
RECURSIVE AsmRun(_)
AsmRun(st) == IF AsmRunning(st) THEN AsmRun(AsmStep(st)) ELSE st

anchor_at_pos(i) == AsmRun(AsmStart(i))

\* ----------------------------------------------- core.find_anchors_winlen
\* indexrange = list(range(len(gaa)-w+1)): the tasks
IndexRange == Range(0, Len(aas[GuideId]) - opts.w + 1)

\* AnchorList.sort(): by the start of the guide fluke
AnchorListSort(l) == SortedBy(l, [k \in 1..Len(l) |-> Ref(l[k]).start])

\* a variant that appends the result of every task
AppendResultAlways(results, r) == Append(results, r.anchor)

\* `if res is not None: results.append(res)` for the final state r of a task
AppendResult(results, r) == IF r.pc = "done" THEN Append(results, r.anchor) ELSE results

\* line 212: assert all([f[0].seqid == gseqid for f in anchors])
GuideFirst(l) == \A k \in 1..Len(l) : l[k].data # <<>> /\ l[k].data[1].seqid = GuideId

\* lines 212-213 for the collected results: [err, list]
ScanReturn(results) ==
    IF ~GuideFirst(results) THEN [err |-> "AssertionError", list |-> <<>>]
    ELSE [err |-> "none", list |-> AnchorListSort(results)]

\* _start_parallel_jobs with njobs = 0: map(do_work, tasks), a task at a time
RECURSIVE SequentialMap(_, _)
SequentialMap(k, results) ==
    IF k > Len(IndexRange) THEN [err |-> "none", list |-> results]
    ELSE LET r == anchor_at_pos(IndexRange[k])
         IN  IF r.pc = "raise" THEN [err |-> r.err, list |-> <<>>]
             ELSE SequentialMap(k + 1, AppendResult(results, r))

\* find_anchors_winlen with sequential processing: [err, list]
find_anchors_winlen ==
    LET m == SequentialMap(1, <<>>)
    IN  IF m.err # "none" THEN m ELSE ScanReturn(m.list)

\* ------------------------------------------------------ inputs of a run
WordLens == {2}
SearchRanges == {1}
ScoreThresholds == {2, 5}
Quotas2 == {1, 2}

Options == [w : WordLens, search_range : SearchRanges,
            score_add_word : ScoreThresholds, thr_score_add_anchor : ScoreThresholds,
            quota2 : Quotas2]

\* the options of a run: one threshold for both scores, as in the defaults
RunOptions == {o \in Options : o.thr_score_add_anchor = o.score_add_word}

NoCall == [seq |-> <<>>, word |-> <<>>, starti |-> 0, w |-> 0,
           maxshift |-> None, maxshift_right |-> None]
NoOpts == [w |-> 0, search_range |-> 0, score_add_word |-> 0,
           thr_score_add_anchor |-> 0, quota2 |-> 0]
\* the return value removed_anchors: an AnchorList or None
AnchorList(l) == [isnone |-> FALSE, data |-> l]
NoneList == [isnone |-> TRUE, data |-> <<>>]

NoScan == [njobs |-> 0, threaded |-> FALSE, gil |-> TRUE, err |-> "none",
           queue |-> 1, running |-> {}, done |-> <<>>, overtaken |-> FALSE,
           next |-> 1, results |-> <<>>]
NoAsm == [pc |-> "idle", err |-> "none", i |-> 0, gword |-> <<>>, words |-> {},
          todo |-> {}, toadd |-> <<>>, res |-> <<>>, nfails |-> 0, anchor |-> NoAnchor]

\* ------------------------------------------------ best-match search model
NoRet == [err |-> "none", sim |-> 0, ind |-> None]

InitSearch ==
    /\ pc = "search"
    /\ \E seq \in SeqsOf(ResiduesOrGap, 0, MaxSearchLen), word \in SeqsOf(ResiduesOrGap, 1, 2),
          starti \in 0..MaxSearchLen, ms \in {None} \cup 0..MaxShift,
          msr \in {None} \cup 0..MaxShift :
         call = [seq |-> seq, word |-> word, starti |-> starti, w |-> Len(word),
                 maxshift |-> ms, maxshift_right |-> msr]
    /\ ret = NoRet
    /\ aas = <<>> /\ opts = NoOpts /\ asm = NoAsm
    /\ scan = NoScan /\ anchors = <<>> /\ removed_anchors = NoneList /\ locals = <<>>

ShiftAndFindBestWord ==
    /\ pc = "search"
    /\ ret' = shift_and_find_best_word(call.seq, call.word, call.starti, call.w,
                                       call.maxshift, call.maxshift_right)
    /\ pc' = "search_ret"
    /\ UNCHANGED <<call, aas, opts, asm, scan, anchors, removed_anchors, locals>>

NextSearch == ShiftAndFindBestWord

SpecSearch == InitSearch /\ [][NextSearch]_vars

\* ------------------------------------------------ anchor assembly model
\* one anchor_at_pos call, a loop pass at a time
AsmMaxLen == 3

InitAsm ==
    /\ pc = "asm"
    /\ call = NoCall /\ ret = NoRet
    /\ scan = NoScan /\ anchors = <<>> /\ removed_anchors = NoneList /\ locals = <<>>
    /\ opts \in Options
    /\ \E g \in SeqsOf(Residues, 2, AsmMaxLen), s2 \in SeqsOf(Residues, 1, AsmMaxLen),
          s3 \in SeqsOf(Residues, 1, AsmMaxLen) :
         aas = <<g, s2, s3>>
    /\ \E i \in 0..AsmMaxLen : /\ i <= Len(aas[GuideId]) - opts.w
                               /\ asm = AsmStart(i)

AsmForLoop ==
    /\ pc = "asm" /\ asm.pc = "for"
    /\ asm' = AsmFor(asm)
    /\ UNCHANGED <<pc, call, ret, aas, opts, scan, anchors, removed_anchors, locals>>

AsmPopLoop ==
    /\ pc = "asm" /\ asm.pc = "pop"
    /\ asm' = AsmPop(asm)
    /\ UNCHANGED <<pc, call, ret, aas, opts, scan, anchors, removed_anchors, locals>>

AsmBuildAnchor ==
    /\ pc = "asm" /\ asm.pc = "build"
    /\ asm' = AsmBuild(asm)
    /\ UNCHANGED <<pc, call, ret, aas, opts, scan, anchors, removed_anchors, locals>>

NextAsm == AsmForLoop \/ AsmPopLoop \/ AsmBuildAnchor

SpecAsm == InitAsm /\ [][NextAsm]_vars

\* ------------------------------------------------ join model
\* one join_with call on two anchors of two sequences
JoinLen == 3

\* an anchor of length n with the guide fluke at i and the other fluke at j
AnchorAt(i, j, n, good) ==
    calculate_scores(Anchor(<<Fluke(1, None, i, i + n, 0, Slice(aas[1], i, i + n), TRUE),
                              Fluke(2, None, j, j + n, 0, Slice(aas[2], j, j + n), good)>>,
                            GuideId))

AnchorsOfLen(n) ==
    {AnchorAt(i, j, n, good) : i \in 0..(Len(aas[1]) - n), j \in 0..(Len(aas[2]) - n),
                               good \in BOOLEAN}

InitJoin ==
    /\ pc = "join"
    /\ call = NoCall /\ ret = NoRet /\ asm = NoAsm /\ scan = NoScan
    /\ opts = NoOpts /\ anchors = <<>> /\ removed_anchors = NoneList
    /\ \E g \in SeqsOf(Residues, JoinLen, JoinLen), s2 \in SeqsOf(Residues, JoinLen, JoinLen) :
         aas = <<g, s2>>
    /\ \E n1 \in 1..JoinLen, n2 \in 1..JoinLen :
         \E a1 \in AnchorsOfLen(n1), a2 \in AnchorsOfLen(n2) : locals = <<a1, a2>>

\* util.py line 191: a = a1.join_with(a2)
JoinWith ==
    /\ pc = "join"
    /\ LET j == join_with(locals[1], locals[2])
       IN  /\ pc' = IF j.err = "none" THEN "join_ret" ELSE "raise"
           /\ ret' = [NoRet EXCEPT !.err = j.err]
           /\ anchors' = IF j.err = "none" THEN <<j.anchor>> ELSE <<>>
    /\ UNCHANGED <<call, aas, opts, asm, scan, removed_anchors, locals>>

NextJoin == JoinWith

SpecJoin == InitJoin /\ [][NextJoin]_vars

\* ------------------------------------------------ corrscore model
\* one call corrscore(seq1, seq2) on two words of any length up to ScoreLen
ScoreLen == 3

InitScore ==
    /\ pc = "corrscore"
    /\ ret = NoRet /\ opts = NoOpts /\ asm = NoAsm /\ scan = NoScan
    /\ aas = <<>> /\ anchors = <<>> /\ removed_anchors = NoneList /\ locals = <<>>
    /\ \E seq1 \in SeqsOf(ResiduesOrGap, 0, ScoreLen), seq2 \in SeqsOf(ResiduesOrGap, 0, ScoreLen) :
         call = [seq1 |-> seq1, seq2 |-> seq2]

\* util.py lines 16-17: the sum is built and returned, nothing is raised
Corrscore ==
    /\ pc = "corrscore"
    /\ ret' = [NoRet EXCEPT !.sim = corrscore(call.seq1, call.seq2)]
    /\ pc' = "corrscore_ret"
    /\ UNCHANGED <<call, aas, opts, asm, scan, anchors, removed_anchors, locals>>

NextScore == Corrscore

SpecScore == InitScore /\ [][NextScore]_vars

\* ------------------------------------------------ core.cutout
\* A position is kept as the parts the string splits into: A is "start",
\* "end", "atg", "*" or "a0" (the anchor of index 0), B is "<", ">", "^" or ""
\* (no alignment character), C is the signed number.
CutLen == 6

\* util._apply_mode for start and stop of a fluke; mode nt is util.py's 'seq'
ApplyMode(f, mode) ==
    IF mode = "aa" THEN <<f.start, f.stop>>
    ELSE IF mode = "cds" THEN <<3 * f.start, 3 * f.stop>>
    ELSE <<3 * f.start + f.offset, 3 * f.stop + f.offset>>

\* Anchor.todict_seqid(): the fluke of a sequence id
HasFluke(a, id) == id \in SeqIds(AllFlukes(a))
FlukeOf(a, id) == AllFlukes(a)[CHOOSE k \in 1..Len(AllFlukes(a)) : AllFlukes(a)[k].seqid = id]

\* _split_cutout_pos: [err, A, B, C, is_real_anchor]
split_cutout_pos(pos, mode, defaultB) ==
    LET real == pos.A \notin {"start", "end", "atg", "*"}
        bad == \/ pos.B # "" /\ pos.A \in {"start", "end"}
               \/ pos.A = "start" /\ pos.C < 0
               \/ pos.A = "end" /\ pos.C > 0
               \/ pos.A \in {"atg", "*"} /\ mode # "nt"
    IN  [err |-> IF bad THEN "ValueError" ELSE "none",
         A |-> pos.A, B |-> IF pos.B = "" THEN defaultB ELSE pos.B, C |-> pos.C,
         is_real_anchor |-> real]

\* _transform_cutout_index for the sequence id_ with its CDS location
transform_cutout_index(sp, id, mode, a, cds) ==
    LET iv == IF sp.A = "start" THEN <<0, 0>>
              ELSE IF sp.A = "end" THEN <<Len(aas[id]), Len(aas[id])>>
              ELSE IF sp.A = "atg" THEN <<cds[id][1], cds[id][1] + 3>>
              ELSE IF sp.A = "*" THEN <<cds[id][2] - 3, cds[id][2]>>
              ELSE ApplyMode(FlukeOf(a, id), mode)
        i == IF sp.B = "<" THEN iv[1] ELSE IF sp.B = ">" THEN iv[2] ELSE (iv[1] + iv[2]) \div 2
    IN  i + sp.C

\* Python's s[i:j]: a negative index counts from the end
PyIndex(s, i) == IF i < 0 THEN Max(0, Len(s) + i) ELSE Min(i, Len(s))
PySlice(s, i, j) == SubSeq(s, PyIndex(s, i) + 1, PyIndex(s, j))

\* the for loop of cutout over the sequences from id_ on: [err, seqs, warned]
RECURSIVE cutout_loop(_, _, _, _, _, _, _, _)
cutout_loop(id, l, r, mode, gate, a, cds, acc) ==
    IF id > Len(aas) THEN acc
    ELSE IF (l.is_real_anchor /\ ~HasFluke(a, id)) \/ (r.is_real_anchor /\ ~HasFluke(a, id))
    THEN [err |-> "ValueError", seqs |-> <<>>, warned |-> acc.warned]
    ELSE IF gate # None /\ (\/ l.is_real_anchor /\ FlukeOf(a, id).score < gate
                            \/ r.is_real_anchor /\ FlukeOf(a, id).score < gate)
    THEN cutout_loop(id + 1, l, r, mode, gate, a, cds,
                     [acc EXCEPT !.warned = Append(@, id)])
    ELSE LET i == transform_cutout_index(l, id, mode, a, cds)
             j == transform_cutout_index(r, id, mode, a, cds)
         IN  cutout_loop(id + 1, l, r, mode, gate, a, cds,
                 [acc EXCEPT !.seqs = Append(@, [id |-> id, data |-> PySlice(aas[id], i, j),
                                                offset |-> IF mode = "nt" THEN i ELSE None])])

\* cutout(seqs, anchors, pos1, pos2, mode, score_use_fluke)
cutout(pos1, pos2, mode, gate, a, cds) ==
    LET l == split_cutout_pos(pos1, mode, "<")
        r == split_cutout_pos(pos2, mode, ">")
    IN  IF l.err # "none" THEN [err |-> l.err, seqs |-> <<>>, warned |-> <<>>]
        ELSE IF r.err # "none" THEN [err |-> r.err, seqs |-> <<>>, warned |-> <<>>]
        ELSE cutout_loop(1, l, r, mode, gate, a, cds,
                         [err |-> "none", seqs |-> <<>>, warned |-> <<>>])

\* ------------------------------------------------ cutout model
\* one cutout call on two nucleotide sequences and one anchor
Nucleotides == 1..4
Ramp(n) == [k \in 1..n |-> ((k - 1) % 4) + 1]
Positions == [A : {"start", "end", "atg", "*", "a0"}, B : {"", "<", ">", "^"}, C : {-1, 0, 1}]
Modes == {"nt", "cds", "aa"}

InitCutout ==
    /\ pc = "cutout"
    /\ call = NoCall /\ ret = NoRet /\ asm = NoAsm /\ scan = NoScan
    /\ removed_anchors = NoneList /\ locals = <<>>
    /\ aas = <<Ramp(CutLen), Ramp(CutLen - 1)>>
    \* opts holds the mode and the CDS location (start, stop) of the sequences
    /\ \E mode \in Modes, c \in 0..1, e \in 0..1 :
         opts = [mode |-> mode, cds |-> [id \in 1..2 |-> <<c, Len(aas[id]) - e>>]]
    /\ \E i \in 0..1, o \in 0..1, both \in BOOLEAN :
         LET f1 == Fluke(1, 4, i, i + 1, o, <<>>, TRUE)
             f2 == Fluke(2, 2, i, i + 1, o, <<>>, TRUE)
         IN  anchors = <<Anchor(IF both THEN <<f1, f2>> ELSE <<f1>>, GuideId)>>

\* core.py lines 336-362
Cutout ==
    /\ pc = "cutout"
    /\ \E pos1 \in Positions, pos2 \in Positions, gate \in {None, 3} :
         /\ call' = [pos1 |-> pos1, pos2 |-> pos2, score_use_fluke |-> gate]
         /\ ret' = cutout(pos1, pos2, opts.mode, gate, anchors[1], opts.cds)
    /\ pc' = IF ret'.err = "none" THEN "cutout_ret" ELSE "raise"
    /\ UNCHANGED <<aas, opts, asm, scan, anchors, removed_anchors, locals>>

NextCutout == Cutout

SpecCutout == InitCutout /\ [][NextCutout]_vars

\* ------------------------------------------------ core.combine
\* An input list is [data, no_cds, strand]: the anchors, the no_cds attribute
\* and the strand of its anchors.
\* Anchor.__hash__
AnchorHash(a) == <<Ref(a).start, FlukeLen(Ref(a)), Ref(a).offset>>
\* membership in a Python set: equal hash and ==, which for the UserList
\* Anchor compares the fluke lists
SetEq(a, b) == AnchorHash(a) = AnchorHash(b) /\ AnchorEq(a, b)
InSet(S, a) == \E k \in 1..Len(S) : SetEq(S[k], a)

\* S | set(l), the set kept as the sequence of its elements
RECURSIVE SetUnion(_, _)
SetUnion(S, l) ==
    IF l = <<>> THEN S
    ELSE SetUnion(IF InSet(S, Head(l)) THEN S ELSE Append(S, Head(l)), Tail(l))

\* AnchorList._convert_nt: the flukes in absolute nucleotide coordinates
ConvertFluke(f) == [f EXCEPT !.start = 3 * f.start + f.offset, !.stop = 3 * f.stop + f.offset,
                             !.offset = 0]
ConvertFlukes(fl) == [k \in 1..Len(fl) |-> ConvertFluke(fl[k])]
ConvertNt(L) ==
    [data |-> [k \in 1..Len(L.data) |->
                  [L.data[k] EXCEPT !.data = ConvertFlukes(@), !.missing = ConvertFlukes(@)]],
     no_cds |-> TRUE, strand |-> "+"]

\* offsets = {f.seqid: f.offset for anchor in lot_of_anchors[0] for f in anchor}:
\* iterating an anchor gives its flukes above the threshold
HasOffset(L, id) == \E k \in 1..Len(L.data) : id \in SeqIds(L.data[k].data)
OffsetsOf(L, id) ==
    LET hits == {<<k, j>> \in (1..Len(L.data)) \X (1..2) :
                    j <= Len(L.data[k].data) /\ L.data[k].data[j].seqid = id}
        last == CHOOSE h \in hits : \A g \in hits : g[1] < h[1] \/ (g[1] = h[1] /\ g[2] <= h[2])
    IN  L.data[last[1]].data[last[2]].offset

\* lines 393-398 for one fluke
AdjustFluke(f, first, div) ==
    LET doff == f.offset - OffsetsOf(first, f.seqid)
    IN  [f EXCEPT !.offset = OffsetsOf(first, f.seqid),
                  !.start = f.start + (doff \div div), !.stop = f.stop + (doff \div div)]
AdjustAnchor(a, first, div) ==
    [a EXCEPT !.data = [k \in 1..Len(a.data) |-> AdjustFluke(a.data[k], first, div)]]
\* offsets[f.seqid] raises KeyError for an id without an entry
NoOffset(a, first) == \E k \in 1..Len(a.data) : ~HasOffset(first, a.data[k].seqid)
BadOffset(a, first, div) ==
    \E k \in 1..Len(a.data) :
        /\ HasOffset(first, a.data[k].seqid)
        /\ (a.data[k].offset - OffsetsOf(first, a.data[k].seqid)) % div # 0
\* the error of the first fluke of the list at which lines 393-396 raise
FlukeError(L, first, div) ==
    LET bad(k, j) == \/ ~HasOffset(first, L.data[k].data[j].seqid)
                     \/ (L.data[k].data[j].offset
                           - OffsetsOf(first, L.data[k].data[j].seqid)) % div # 0
        hits == {x \in (1..Len(L.data)) \X (1..2) : x[2] <= Len(L.data[x[1]].data) /\ bad(x[1], x[2])}
        x == FirstPair(hits)
    IN  IF hits = {} THEN "none"
        ELSE IF ~HasOffset(first, L.data[x[1]].data[x[2]].seqid) THEN "KeyError"
        ELSE "ValueError"

\* the loop of lines 385-399 from list n on: [err, anchors]
RECURSIVE combine_loop(_, _, _, _)
combine_loop(lot, n, div, S) ==
    IF n > Len(lot) THEN [err |-> "none", anchors |-> S]
    ELSE LET L == lot[n]
         IN  IF \E k \in 1..Len(L.data) : InSet(S, L.data[k])
             THEN [err |-> "ValueError", anchors |-> <<>>]
             ELSE IF L.strand = "-"
             THEN [err |-> "ValueError", anchors |-> <<>>]
             ELSE IF \E k \in 1..Len(L.data) : NoOffset(L.data[k], lot[1]) \/ BadOffset(L.data[k], lot[1], div)
             THEN [err |-> FlukeError(L, lot[1], div), anchors |-> <<>>]
             ELSE combine_loop(lot, n + 1, div,
                      SetUnion(S, [k \in 1..Len(L.data) |-> AdjustAnchor(L.data[k], lot[1], div)]))

\* combine(lot_of_anchors, convert_nt): [err, anchors], anchors in set order
combine(lot, convert_nt) ==
    IF \E m, n \in 1..Len(lot) : lot[m].no_cds # lot[n].no_cds
    THEN [err |-> "ValueError", anchors |-> <<>>]
    ELSE IF convert_nt /\ lot[1].no_cds THEN [err |-> "ValueError", anchors |-> <<>>]
    ELSE LET conv == IF convert_nt THEN [n \in 1..Len(lot) |-> ConvertNt(lot[n])] ELSE lot
         IN  combine_loop(conv, 1, IF conv[1].no_cds THEN 1 ELSE 3, <<>>)

\* ------------------------------------------------ combine model
\* two input lists over two sequences: one or two anchors, then one anchor;
\* the fluke of the second sequence is above the threshold or poor
CombineStarts == 0..1
CombineLens == 1..2
CombineScores == {2, 3}
CombineOffsets == {0, 1, 3}
CombineAnchor(start, n, score, offset, good) ==
    Anchor(<<Fluke(1, 4, start, start + n, offset, <<>>, TRUE),
             Fluke(2, score, start, start + n, offset, <<>>, good)>>, GuideId)
CombineAnchors(offset) ==
    {CombineAnchor(start, n, score, offset, good) :
        start \in CombineStarts, n \in CombineLens, score \in CombineScores, good \in BOOLEAN}
CombineLists(offsets, maxlen, strands) ==
    {[data |-> l, no_cds |-> no_cds, strand |-> strand] :
        l \in UNION {SeqsOf(CombineAnchors(offset), 1, maxlen) : offset \in offsets},
        no_cds \in BOOLEAN, strand \in strands}

\* the orders in which a set of n elements can be iterated
Orders(n) == {f \in [1..n -> 1..n] : \A i, j \in 1..n : f[i] = f[j] => i = j}

InitCombine ==
    /\ pc = "combine"
    /\ call = NoCall /\ opts = NoOpts /\ ret = NoRet /\ asm = NoAsm /\ scan = NoScan
    /\ aas = <<>> /\ anchors = <<>> /\ removed_anchors = NoneList
    /\ \E L1 \in CombineLists({0}, 2, {"+"}), L2 \in CombineLists(CombineOffsets, 1, {"+", "-"}) :
         locals = <<L1, L2>>

\* core.py lines 365-400; the order of the set among equal guide starts is open
Combine ==
    /\ pc = "combine"
    /\ \E convert_nt \in BOOLEAN :
         \E c \in {combine(locals, convert_nt)} :
             /\ call' = [convert_nt |-> convert_nt]
             /\ ret' = [NoRet EXCEPT !.err = c.err]
             /\ pc' = IF c.err = "none" THEN "combine_ret" ELSE "raise"
             /\ \E order \in Orders(Len(c.anchors)) :
                  anchors' = AnchorListSort([k \in 1..Len(c.anchors) |-> c.anchors[order[k]]])
    /\ UNCHANGED <<aas, opts, asm, scan, removed_anchors, locals>>

NextCombine == Combine

SpecCombine == InitCombine /\ [][NextCombine]_vars

\* ------------------------------------------------ parallel scan model
\* find_anchors_winlen with _start_parallel_jobs: the tasks are the guide
\* positions; a pool of workers runs them and the for loop collects the results
MaxJobs == 2
ScanLen == 4

\* os.process_cpu_count() of the machine
process_cpu_count == 2
JobCounts == (0 - MaxJobs)..MaxJobs

\* the future of a task that has not finished
Pending == [NoAsm EXCEPT !.pc = "pending"]
Tasks == 1..Len(IndexRange)

\* line 171: njobs if njobs > 0 else process_cpu_count() + njobs
Workers(sc) == IF sc.njobs > 0 THEN sc.njobs ELSE process_cpu_count + sc.njobs

\* lines 148-174: map for sequential processing, an executor for a pool;
\* threads under the GIL raise RuntimeError, and Executor(max_workers=n)
\* raises ValueError for n <= 0
PoolFor(sc) ==
    IF sc.njobs = 0 THEN sc
    ELSE IF sc.threaded /\ sc.gil THEN [sc EXCEPT !.err = "RuntimeError"]
    ELSE IF Workers(sc) <= 0 THEN [sc EXCEPT !.err = "ValueError"]
    ELSE [sc EXCEPT !.done = [t \in Tasks |-> Pending]]

\* a variant that takes the result of a future without waiting for it
ResultReadyAlways(sc) == TRUE

\* executor.map yields the results in the order of the tasks: the for loop of
\* line 180 waits until the task sc.next has finished
ResultReady(sc) == sc.done[sc.next].pc # "pending"

InitScan ==
    /\ pc = "jobs"
    /\ call = NoCall /\ ret = NoRet /\ asm = NoAsm
    /\ anchors = <<>> /\ removed_anchors = NoneList /\ locals = <<>>
    /\ opts \in RunOptions
    /\ \E g \in SeqsOf(Residues, ScanLen, ScanLen), s2 \in SeqsOf(Residues, 1, ScanLen - 2) :
         aas = <<g, s2>>
    \* the GIL is looked at for threads only
    /\ \E njobs \in JobCounts, threaded \in BOOLEAN, gil \in BOOLEAN :
         /\ ~threaded => gil
         /\ scan = [NoScan EXCEPT !.njobs = njobs, !.threaded = threaded, !.gil = gil]

\* lines 148-174
StartJobs ==
    /\ pc = "jobs"
    /\ scan' = PoolFor(scan)
    /\ pc' = IF scan'.err # "none" THEN "pool_error"
             ELSE IF scan.njobs = 0 THEN "map" ELSE "executor"
    /\ UNCHANGED <<call, ret, aas, opts, asm, anchors, removed_anchors, locals>>

\* lines 180-182 with map(do_work, tasks): the loop runs the next task itself
MapNext ==
    /\ pc = "map"
    /\ scan.next \in Tasks
    /\ LET r == anchor_at_pos(IndexRange[scan.next])
       IN  IF r.pc = "raise"
           THEN /\ pc' = "raise"
                /\ scan' = [scan EXCEPT !.err = r.err]
           ELSE /\ pc' = pc
                /\ scan' = [scan EXCEPT !.results = AppendResult(@, r), !.next = @ + 1]
    /\ UNCHANGED <<call, ret, aas, opts, asm, anchors, removed_anchors, locals>>

\* a free worker of the pool takes the next task of the queue
TaskStart ==
    /\ pc = "executor"
    /\ scan.queue \in Tasks
    /\ Cardinality(scan.running) < Workers(scan)
    /\ scan' = [scan EXCEPT !.running = @ \cup {scan.queue}, !.queue = @ + 1]
    /\ UNCHANGED <<pc, call, ret, aas, opts, asm, anchors, removed_anchors, locals>>

\* a running task finishes: its future holds the outcome of anchor_at_pos
TaskFinish ==
    /\ pc = "executor"
    /\ \E t \in scan.running :
         scan' = [scan EXCEPT !.running = @ \ {t},
                              !.done[t] = anchor_at_pos(IndexRange[t]),
                              !.overtaken = @ \/ \E u \in scan.running : u < t]
    /\ UNCHANGED <<pc, call, ret, aas, opts, asm, anchors, removed_anchors, locals>>

\* lines 180-182 with executor.map: the loop takes the result of the next task;
\* the exception of a task is raised when its result is taken
Collect ==
    /\ pc = "executor"
    /\ scan.next \in Tasks
    /\ ResultReady(scan)
    /\ LET r == scan.done[scan.next]
       IN  IF r.pc = "raise"
           THEN /\ pc' = "raise"
                /\ scan' = [scan EXCEPT !.err = r.err]
           ELSE /\ pc' = pc
                /\ scan' = [scan EXCEPT !.results = AppendResult(@, r), !.next = @ + 1]
    /\ UNCHANGED <<call, ret, aas, opts, asm, anchors, removed_anchors, locals>>

\* lines 186-189 and 212-213: the loop is over; assert, sort and return
ScanFinish ==
    /\ pc \in {"map", "executor"}
    /\ scan.next \notin Tasks
    /\ LET r == ScanReturn(scan.results)
       IN  /\ pc' = IF r.err = "none" THEN "scan_ret" ELSE "raise"
           /\ scan' = [scan EXCEPT !.err = r.err]
           /\ anchors' = r.list
    /\ UNCHANGED <<call, ret, aas, opts, asm, removed_anchors, locals>>

NextScan == StartJobs \/ MapNext \/ TaskStart \/ TaskFinish \/ Collect \/ ScanFinish

SpecScan == InitScan /\ [][NextScan]_vars

\* ------------------------------------------------ find_my_anchors model
\* scan, merge and removal of one run; the scan is processed sequentially
Init ==
    /\ pc = "scan"
    /\ call = NoCall /\ ret = NoRet /\ asm = NoAsm /\ scan = NoScan
    /\ anchors = <<>> /\ removed_anchors = NoneList /\ locals = <<>>
    /\ opts \in RunOptions
    /\ \E g \in SeqsOf(Residues, MaxLen, MaxLen), s2 \in SeqsOf(Residues, MaxLen - 1, MaxLen - 1),
          s3 \in SeqsOf(Residues, MaxLen - 2, MaxLen - 2) :
         aas = <<g, s2, s3>>

\* core.py line 258
FindAnchors ==
    /\ pc = "scan"
    /\ \E r \in {find_anchors_winlen} :
           /\ pc' = IF r.err = "none" THEN "merge" ELSE "raise"
           /\ anchors' = r.list
    /\ UNCHANGED <<call, ret, aas, opts, asm, scan, removed_anchors, locals>>

\* core.py line 260: a pass of the while loop of the merge that joins a pair
MergeStep ==
    /\ pc = "merge"
    /\ MergePairs(anchors) # {}
    /\ \E r \in {MergeOnce(anchors)} :
           /\ pc' = IF r.err = "none" THEN "merge" ELSE "raise"
           /\ anchors' = r.list
    /\ UNCHANGED <<call, ret, aas, opts, asm, scan, removed_anchors, locals>>

\* the merge finds no pair and returns; `remove` is an argument of the run
MergeReturn ==
    /\ pc = "merge"
    /\ MergePairs(anchors) = {}
    /\ \E remove \in BOOLEAN :
         /\ pc' = IF remove THEN "remove" ELSE "return"
         /\ removed_anchors' = IF remove THEN AnchorList(<<>>) ELSE NoneList
    /\ UNCHANGED <<call, ret, aas, opts, asm, scan, anchors, locals>>

\* core.py line 276: a pass of the while loop of the removal that removes a2
RemoveStep ==
    /\ pc = "remove"
    /\ RemovePairs(anchors) # {}
    /\ \E x \in {RemovePick(anchors)} :
           /\ locals' = x
           /\ anchors' = RemoveFirst(anchors, x[2])
           /\ removed_anchors' = AnchorList(Append(removed_anchors.data, x[2]))
    /\ UNCHANGED <<pc, call, ret, aas, opts, asm, scan>>

\* the removal finds no pair and returns
RemoveReturn ==
    /\ pc = "remove"
    /\ RemovePairs(anchors) = {}
    /\ pc' = "return"
    /\ UNCHANGED <<call, ret, aas, opts, asm, scan, anchors, removed_anchors, locals>>

\* core.py line 280
ReturnAnchors ==
    /\ pc = "return"
    /\ anchors' = AnchorListSort(anchors)
    /\ pc' = "done"
    /\ UNCHANGED <<call, ret, aas, opts, asm, scan, removed_anchors, locals>>

Next == FindAnchors \/ MergeStep \/ MergeReturn \/ RemoveStep \/ RemoveReturn \/ ReturnAnchors

Spec == Init /\ [][Next]_vars

\* ------------------------------------------------ continue_with model
\* the runs of find_my_anchors on two sequences, the guide of length ContLen
ContLen == 6

InitContinue ==
    /\ pc = "scan"
    /\ call = NoCall /\ ret = NoRet /\ asm = NoAsm /\ scan = NoScan
    /\ anchors = <<>> /\ removed_anchors = NoneList /\ locals = <<>>
    /\ opts \in RunOptions
    /\ \E g \in SeqsOf(Residues, ContLen, ContLen),
          s2 \in SeqsOf(Residues, ContLen - 2, ContLen - 2) :
         aas = <<g, s2>>

\* a second run of find_my_anchors: the list a run without removal returned
\* is passed as continue_with, with remove=True (core.py lines 232, 273-276)
ContinueWith ==
    /\ pc = "done"
    /\ removed_anchors.isnone
    /\ call = NoCall
    /\ call' = [continue_with |-> anchors]
    /\ anchors' = ContinueWithAnchors(anchors)
    /\ removed_anchors' = AnchorList(<<>>)
    /\ pc' = "remove"
    /\ UNCHANGED <<ret, aas, opts, asm, scan, locals>>

NextContinue == Next \/ ContinueWith

SpecContinue == InitContinue /\ [][NextContinue]_vars

\* ------------------------------------------------ annotation model
\* find_my_anchors from its first line: call holds no_cds and, for every
\* sequence, meta = [offset, cds]: the offset (None without one) and the strand
\* of the CDS feature ("none" without one).  aas is what the translation gives.
AnnotLen == 4
Offsets == {None, 3}
Strands == {"none", "+", "-"}

AllOffset(meta) == \A k \in 1..Len(meta) : meta[k].offset # None
AllCds(meta) == \A k \in 1..Len(meta) : meta[k].cds # "none"
\* a variant that is content with one annotated sequence
CanTranslateSome(meta) ==
    \E k \in 1..Len(meta) : meta[k].offset # None \/ meta[k].cds # "none"
\* lines 242-252: translation of the full sequences or of the CDS, else ValueError
CanTranslate(meta) == AllOffset(meta) \/ AllCds(meta)

\* the offsets of the amino-acid sequences, lines 235-250
OffsetsAfter(no_cds, meta) ==
    [k \in 1..Len(meta) |->
        IF no_cds THEN [meta[k] EXCEPT !.offset = IF AllOffset(meta) THEN @ ELSE 0]
        ELSE IF AllOffset(meta) THEN meta[k]
        ELSE [meta[k] EXCEPT !.offset = IF meta[k].cds = "-" THEN 3 * Len(aas[k]) ELSE 0]]

\* lines 265-269
StrandsDiffer(meta) == \E k, m \in 1..Len(meta) : meta[k].cds # meta[m].cds

\* the tasks the sequential scan has run: all, or those up to the one that raises
TasksRun ==
    LET bad == {t \in Tasks : anchor_at_pos(IndexRange[t]).pc = "raise"}
    IN  {t \in Tasks : \A b \in bad : t <= b}

InitAnnot ==
    /\ pc = "start"
    /\ ret = NoRet /\ asm = NoAsm /\ scan = NoScan
    /\ anchors = <<>> /\ removed_anchors = NoneList /\ locals = <<>>
    /\ opts \in {o \in RunOptions : o.quota2 = 1}
    /\ \E g \in SeqsOf(Residues, AnnotLen, AnnotLen),
          s2 \in SeqsOf(Residues, AnnotLen - 1, AnnotLen - 1) :
         aas = <<g, s2>>
    /\ \E no_cds \in BOOLEAN, meta \in [1..2 -> [offset : Offsets, cds : Strands]] :
         call = [no_cds |-> no_cds, meta |-> meta]

\* lines 233-256
CheckAnnotation ==
    /\ pc = "start"
    /\ IF call.no_cds \/ CanTranslate(call.meta)
       THEN /\ pc' = "scan"
            /\ call' = [call EXCEPT !.meta = OffsetsAfter(call.no_cds, call.meta)]
            /\ ret' = ret
       ELSE /\ pc' = "raise"
            /\ ret' = [NoRet EXCEPT !.err = "ValueError"]
            /\ call' = call
    /\ UNCHANGED <<aas, opts, asm, scan, anchors, removed_anchors, locals>>

\* line 258; scan.running keeps the tasks that were run
FindAnchorsAnnot ==
    /\ pc = "scan"
    /\ \E r \in {find_anchors_winlen} :
         /\ pc' = IF r.err = "none" THEN "merge" ELSE "raise"
         /\ anchors' = r.list
         /\ ret' = [NoRet EXCEPT !.err = r.err]
    /\ scan' = [scan EXCEPT !.running = TasksRun]
    /\ UNCHANGED <<call, aas, opts, asm, removed_anchors, locals>>

\* lines 262-276 when the merge has returned
StrandCheck ==
    /\ pc = "merge"
    /\ MergePairs(anchors) = {}
    /\ IF ~call.no_cds /\ AllCds(call.meta) /\ StrandsDiffer(call.meta)
       THEN /\ pc' = "raise"
            /\ ret' = [NoRet EXCEPT !.err = "ValueError"]
            /\ removed_anchors' = removed_anchors
       ELSE /\ ret' = ret
            /\ \E remove \in BOOLEAN :
                 /\ pc' = IF remove THEN "remove" ELSE "return"
                 /\ removed_anchors' = IF remove THEN AnchorList(<<>>) ELSE NoneList
    /\ UNCHANGED <<call, aas, opts, asm, scan, anchors, locals>>

NextAnnot ==
    \/ CheckAnnotation \/ FindAnchorsAnnot \/ MergeStep \/ StrandCheck
    \/ RemoveStep \/ RemoveReturn \/ ReturnAnchors

SpecAnnot == InitAnnot /\ [][NextAnnot]_vars

\* ------------------------------------------------ claims on the search
\* the search range of a call as the claim writes it (inclusive bounds)
CallShift == IF call.maxshift = None THEN Len(call.seq) ELSE call.maxshift
CallShiftRight == IF call.maxshift_right = None THEN CallShift ELSE call.maxshift_right
CallRange == Max(0, call.starti - CallShiftRight) ..
             Min(Len(call.seq) - call.w, call.starti + CallShift)
CallScore(i) == corrscore(Slice(call.seq, i, i + call.w), call.word)
CallBest == {i \in CallRange : \A k \in CallRange : CallScore(k) <= CallScore(i)}

\* C6: shift_and_find_best_word returns an index of the inclusive search range
\* whose window has the maximum score of the range and, among the indices
\* reaching that maximum, one with the smallest distance to starti.
C6_BestWordSmallestShift ==
    (pc = "search_ret" /\ ret.err = "none") =>
        /\ ret.ind \in CallBest
        /\ ret.sim = CallScore(ret.ind)
        /\ \A k \in CallBest : Abs(ret.ind - call.starti) <= Abs(k - call.starti)

\* C7: with an empty search range shift_and_find_best_word returns (0, None)
\* and does not raise.
C7_EmptyRangeReturnsDefault ==
    (pc = "search_ret" /\ CallRange = {}) =>
        (ret.err = "none" /\ ret.sim = 0 /\ ret.ind = None)

\* ------------------------------------------------ claims on the assembly
\* the accepted entries of res whose score is below thr_score_add_anchor
FailedRes(st) == {k \in 1..Len(st.res) : st.res[k][1] < opts.thr_score_add_anchor}

\* C5: while anchor_at_pos has not given up, and when it returns an anchor,
\* the sequences accepted with a score below thr_score_add_anchor, divided by
\* the number of sequences, do not exceed 1 - thr_quota_add_anchor; with a
\* quota of 1 no sequence of a returned anchor scored below the threshold.
C5_QuotaKept ==
    (pc = "asm" /\ asm.pc \in {"for", "pop", "build", "done"}) =>
        /\ 2 * Cardinality(FailedRes(asm)) <= NSeqs * (2 - opts.quota2)
        /\ opts.quota2 = 2 => FailedRes(asm) = {}

C5_Witness ==
    /\ pc = "asm" /\ asm.pc = "done"
    /\ Cardinality(FailedRes(asm)) = 1

\* C8: when a non-guide sequence is shorter than the word length and the
\* assembly searches it, anchor_at_pos ends with a ValueError.
ShortSeqs == {id \in 2..NSeqs : Len(aas[id]) < opts.w}

C8_ShortSequenceValueError ==
    (pc = "asm" /\ ShortSeqs # {} /\ asm.pc \notin {"for", "none"}) =>
        (asm.pc = "raise" /\ asm.err = "ValueError")

InList(a, l) == \E k \in 1..Len(l) : l[k] = a
\* remove_contradicting_anchors has returned
Removal == pc \in {"return", "done"} /\ ~removed_anchors.isnone
\* merge_neighbor_anchors has returned
Merged == pc \in {"remove", "return", "done"}

\* C1: after remove_contradicting_anchors has returned, contradicts is false
\* for every ordered pair of distinct anchors of the list.
C1_NoContradictionsAfterRemoval ==
    Removal => \A k, m \in 1..Len(anchors) :
                   k # m => ~contradicts(anchors[k], anchors[m])

C1_Witness ==
    /\ Removal
    /\ removed_anchors.data # <<>>
    /\ Len(anchors) >= 2

\* C2: after the merge has returned, overlaps_with is false for every pair of
\* distinct anchors of the list.
C2_NoOverlapAfterMerge ==
    Merged => \A k, m \in 1..Len(anchors) :
                  k # m => ~overlaps_with(anchors[k], anchors[m])

C2_Witness ==
    /\ Merged
    /\ Len(anchors) >= 2
    /\ \E k \in 1..Len(anchors) : FlukeLen(Ref(anchors[k])) > opts.w

\* C3: every anchor of the list find_my_anchors returns has one fluke per input
\* sequence, one fluke of the guide, flukes of one length and no two flukes of
\* the same sequence.
C3_AnchorInvariants ==
    pc = "done" =>
        \A k \in 1..Len(anchors) :
            LET fl == AllFlukes(anchors[k])
            IN  /\ \A id \in 1..NSeqs : Cardinality({x \in 1..Len(fl) : fl[x].seqid = id}) = 1
                /\ Len(fl) = NSeqs
                /\ Cardinality({x \in 1..Len(fl) : fl[x].seqid = anchors[k].refid}) = 1
                /\ anchors[k].refid = GuideId
                /\ \A x, y \in 1..Len(fl) : FlukeLen(fl[x]) = FlukeLen(fl[y])
                /\ \A x, y \in 1..Len(fl) : x # y => fl[x].seqid # fl[y].seqid

C3_Witness ==
    /\ pc = "done"
    /\ removed_anchors.data # <<>>
    /\ \E k \in 1..Len(anchors) : /\ FlukeLen(Ref(anchors[k])) > opts.w
                                  /\ anchors[k].missing # <<>>

\* the pass of remove_contradicting_anchors that removed a2 = locals[2]: a2
\* contradicts a1 = locals[1], which is in the list, and is not above it
RemovedByHigher ==
    (pc \in {"remove", "return", "done"} /\ locals # <<>>) =>
        /\ InList(locals[1], anchors)
        /\ InList(locals[2], removed_anchors.data)
        /\ contradicts(locals[1], locals[2])
        /\ minscore(locals[1]) >= minscore(locals[2])

\* the anchors the removal was given
Everyone == anchors \o removed_anchors.data

\* C10 as the claim states it: a removed anchor contradicts an anchor of the
\* list that is not below it, and of any two contradicting anchors of different
\* minscore the higher one is in the list and the other in the removed list.
C10_HigherMinscoreStays ==
    /\ RemovedByHigher
    /\ Removal => \A k, m \in 1..Len(Everyone) :
           (minscore(Everyone[k]) > minscore(Everyone[m])
                /\ contradicts(Everyone[k], Everyone[m]))
              => (InList(Everyone[k], anchors) /\ InList(Everyone[m], removed_anchors.data))

\* C10, amended: a removed anchor contradicts an anchor of the list that is not
\* below it; of two contradicting anchors of different minscore the two never
\* both stay, the lower one is removed whenever the higher one stays, and a
\* removed higher one contradicts a third anchor that is not below it.
C10_LowerRemovedWhenHigherStays ==
    /\ RemovedByHigher
    /\ Removal => \A k, m \in 1..Len(Everyone) :
           (minscore(Everyone[k]) > minscore(Everyone[m])
                /\ contradicts(Everyone[k], Everyone[m]))
              => /\ ~(InList(Everyone[k], anchors) /\ InList(Everyone[m], anchors))
                 /\ InList(Everyone[k], anchors) => InList(Everyone[m], removed_anchors.data)
                 /\ ~InList(Everyone[k], anchors) =>
                       \E c \in 1..Len(Everyone) :
                           /\ c # m
                           /\ minscore(Everyone[c]) >= minscore(Everyone[k])
                           /\ contradicts(Everyone[c], Everyone[k])

C10_Witness ==
    /\ Removal
    /\ \E k \in 1..Len(anchors), m \in 1..Len(removed_anchors.data) :
           /\ minscore(anchors[k]) > minscore(removed_anchors.data[m])
           /\ contradicts(anchors[k], removed_anchors.data[m])
    /\ \E k \in 1..Len(anchors), m \in 1..Len(removed_anchors.data) :
           /\ minscore(anchors[k]) < minscore(removed_anchors.data[m])
           /\ contradicts(anchors[k], removed_anchors.data[m])

\* ------------------------------------------------ claims on the scan
\* C4: the list a scan returns is the list of the sequential scan of the same
\* sequences and options, whatever the pool and the order in which the tasks
\* finish; a scan that ends with the error of a task ends with the error of
\* the sequential scan.
C4_ScanDeterministic ==
    /\ pc = "scan_ret" => (find_anchors_winlen.err = "none" /\ anchors = find_anchors_winlen.list)
    /\ pc = "raise" => find_anchors_winlen.err = scan.err

C4_Witness ==
    /\ pc = "scan_ret"
    /\ Workers(scan) >= 2
    /\ Len(anchors) >= 2
    /\ scan.overtaken

\* ------------------------------------------------ claims on the join
\* the guide interval of a holds the guide interval of b
Contains(a, b) == Ref(a).start <= Ref(b).start /\ Ref(a).stop >= Ref(b).stop
\* the join of a nicely-overlapping pair has returned
Joined == pc = "join_ret" /\ overlaps_with(locals[1], locals[2])

\* C11: the join of two nicely-overlapping anchors of which one's guide
\* interval holds the other's returns the holding anchor, every fluke with its
\* start, stop, word and score, and the same anchor when the other one is the
\* receiver (either of the two when the guide intervals are equal).
C11_ContainingAnchorUnchanged ==
    \A x, y \in {1, 2} :
        (Joined /\ x # y /\ Contains(locals[x], locals[y])) =>
            /\ anchors[1] \in {locals[1], locals[2]}
            /\ Contains(anchors[1], locals[1]) /\ Contains(anchors[1], locals[2])
            /\ ~Contains(locals[y], locals[x]) =>
                   /\ anchors[1] = locals[x]
                   /\ join_with(locals[2], locals[1]) = join_with(locals[1], locals[2])

C11_Witness ==
    /\ Joined
    /\ Contains(locals[2], locals[1]) /\ ~Contains(locals[1], locals[2])
    /\ locals[2].missing # <<>>
    /\ anchors[1] = locals[2]

\* ------------------------------------------------ cutout claims
Explicit(p) == p.B # "" \/ p.A \in {"start", "end"}
LeftIndex(p, id) ==
    transform_cutout_index(split_cutout_pos(p, opts.mode, "<"), id, opts.mode, anchors[1], opts.cds)
RightIndex(p, id) ==
    transform_cutout_index(split_cutout_pos(p, opts.mode, ">"), id, opts.mode, anchors[1], opts.cds)
CutIds(r) == {r.seqs[k].id : k \in 1..Len(r.seqs)}
CutOf(r, id) == r.seqs[CHOOSE k \in 1..Len(r.seqs) : r.seqs[k].id = id]
CutoutCall(pos1, pos2) == cutout(pos1, pos2, opts.mode, call.score_use_fluke, anchors[1], opts.cds)
Returned == pc = "cutout_ret"

\* C12: for a sequence and positions p1, p2, p3 with resolved indices
\* i1 <= i2 <= i3, the slices of cutout(p1, p2) and cutout(p2, p3) concatenate
\* to the slice of cutout(p1, p3); p2 has an explicit alignment character (or
\* is start/end) and so resolves to one index as left and as right position.
C12_CutoutsConcatenate ==
    Returned =>
        \A p2 \in Positions : \A id \in CutIds(ret) :
            LET a == CutoutCall(call.pos1, p2)
                b == CutoutCall(p2, call.pos2)
            IN  (/\ Explicit(p2) /\ a.err = "none" /\ b.err = "none"
                 /\ id \in CutIds(a) /\ id \in CutIds(b)
                 /\ LeftIndex(call.pos1, id) <= RightIndex(p2, id)
                 /\ LeftIndex(p2, id) <= RightIndex(call.pos2, id))
                => /\ LeftIndex(p2, id) = RightIndex(p2, id)
                   /\ CutOf(a, id).data \o CutOf(b, id).data = CutOf(ret, id).data

UsesAnchor == call.pos1.A = "a0" \/ call.pos2.A = "a0"
ValidPositions ==
    /\ split_cutout_pos(call.pos1, opts.mode, "<").err = "none"
    /\ split_cutout_pos(call.pos2, opts.mode, ">").err = "none"
NoFlukeIds == {id \in 1..Len(aas) : ~HasFluke(anchors[1], id)}
BelowGate(id) == call.score_use_fluke # None /\ FlukeOf(anchors[1], id).score < call.score_use_fluke

\* C13: when the anchor of a cutout position has no fluke for some sequence,
\* the call returns: that sequence is warned about and left out, and the
\* cut-outs of the other sequences are returned.
C13_MissingFlukeSkipsSequence ==
    (pc # "cutout" /\ UsesAnchor /\ ValidPositions /\ NoFlukeIds # {}) =>
        /\ pc = "cutout_ret"
        /\ \A id \in NoFlukeIds :
               id \notin CutIds(ret) /\ \E k \in 1..Len(ret.warned) : ret.warned[k] = id
        /\ \A id \in (1..Len(aas)) \ NoFlukeIds : ~BelowGate(id) => id \in CutIds(ret)

\* ------------------------------------------------ combine claims
SameIdentity(a, b) == AnchorHash(a) = AnchorHash(b)
DuplicateAcrossInputs ==
    \E k \in 1..Len(locals[1].data), m \in 1..Len(locals[2].data) :
        SameIdentity(locals[1].data[k], locals[2].data[m])

\* C14: combine fails and returns no AnchorList whenever one anchor identity
\* (guide start, length, offset) is in two of the input lists, and a returned
\* AnchorList never holds an identity twice.
C14_DuplicateIdentityRejected ==
    /\ (pc # "combine" /\ DuplicateAcrossInputs) => pc = "raise" /\ anchors = <<>>
    /\ pc = "combine_ret" =>
           \A k, m \in 1..Len(anchors) : SameIdentity(anchors[k], anchors[m]) => k = m

\* ------------------------------------------------ claims on the returned lists
SortedByStart(l) == \A k \in 1..(Len(l) - 1) : Ref(l[k]).start <= Ref(l[k + 1]).start

\* C15: the two lists find_my_anchors returns after removal, the surviving
\* anchors and the removed anchors, are sorted by non-decreasing guide start.
C15_BothListsSorted ==
    (pc = "done" /\ ~removed_anchors.isnone) =>
        SortedByStart(anchors) /\ SortedByStart(removed_anchors.data)

\* ------------------------------------------------ claims on continue_with
Continued == call # NoCall
\* the list one run with remove=True returns for the sequences and options
OneRun ==
    AnchorListSort(remove_contradicting_anchors(
        merge_neighbor_anchors(find_anchors_winlen.list).list))

\* C16: a run without removal followed by a run with continue_with set to its
\* result and removal enabled returns the list one run with removal returns;
\* the run with continue_with does no scan and no merge, it only removes.
C16_ContinueWithSameResult ==
    Continued =>
        /\ pc \in {"remove", "return", "done"}
        /\ Len(anchors) + Len(removed_anchors.data) = Len(call.continue_with)
        /\ \A k \in 1..Len(anchors) :
               \E m \in 1..Len(call.continue_with) : anchors[k] = call.continue_with[m]
        /\ pc = "done" => anchors = OneRun

\* ------------------------------------------------ claims on the annotation
AnnotationError == pc = "raise" /\ ret.err = "ValueError"
ScanStarted == scan.running # {}

\* C17: an inconsistency of the CDS/offset annotation that find_my_anchors
\* rejects is rejected before the scan starts: when the error is raised no
\* Anchor Assembly task has been run.
C17_AnnotationRejectedBeforeScan == AnnotationError => ~ScanStarted

Mixed == ~AllOffset(call.meta) /\ ~AllCds(call.meta)
Checked == pc # "start"

\* C18 as stated: find_my_anchors fails, whatever its options, whenever the
\* sequences are neither all annotated with offsets nor all with CDS features.
C18_MixedAnnotationFatal ==
    [][(pc = "start" /\ Mixed) => (AnnotationError /\ ~ScanStarted)']_vars

\* C18: without no_cds the call fails with ValueError before the scan whenever
\* the sequences are neither all annotated with offsets nor all with CDS
\* features; with no_cds it does not fail for the annotation: the scan runs
\* and every sequence without exception gets the offset 0.
C18_MixedAnnotationFatalWithCds ==
    [][pc = "start" =>
          /\ (~call.no_cds /\ Mixed) => (AnnotationError /\ ~ScanStarted)'
          /\ (call.no_cds /\ Mixed) =>
                 (pc = "scan" /\ \A k \in 1..2 : call.meta[k].offset = 0)']_vars
C18_Witness == AnnotationError /\ ~ScanStarted /\ ~call.no_cds /\ Mixed

\* ------------------------------------------------ claims on the scan results
TaskResult(t) == anchor_at_pos(IndexRange[t])
Raising == {t \in Tasks : TaskResult(t).pc = "raise"}
WithAnchor == {t \in Tasks : TaskResult(t).pc = "done"}

\* C19: the scan returns the anchors of the guide indices whose assembly
\* returned an anchor, one for each; an index without anchor is left out and
\* is no error; when the task of an index raises, the scan raises that error
\* and returns no list.
C19_ScanCollectsAnchors ==
    /\ pc = "scan_ret" =>
        /\ Raising = {}
        /\ Len(anchors) = Cardinality(WithAnchor)
        /\ \A t \in WithAnchor :
               \E k \in 1..Len(anchors) :
                   anchors[k] = TaskResult(t).anchor /\ Ref(anchors[k]).start = IndexRange[t]
    /\ pc = "raise" =>
        /\ anchors = <<>>
        /\ \E t \in Raising : scan.err = TaskResult(t).err
    /\ (pc \in {"scan_ret", "raise"} /\ Raising # {}) => pc = "raise"

C19_Witness ==
    /\ pc = "scan_ret"
    /\ scan.njobs # 0
    /\ WithAnchor # {}
    /\ \E t \in Tasks : TaskResult(t).pc \notin {"done", "raise"}

\* ------------------------------------------------ claims on corrscore
\* the sum of matrix[word1[i]][word2[i]] over the positions without gap
RECURSIVE MatrixSum(_, _, _)
MatrixSum(word1, word2, n) ==
    IF n = 0 THEN 0
    ELSE MatrixSum(word1, word2, n - 1)
         + (IF word1[n] = GAP \/ word2[n] = GAP THEN 0 ELSE submat[word1[n]][word2[n]])

\* C20: corrscore fails with an error for two words of different length; for
\* words of equal length it returns the sum of matrix[word1[i]][word2[i]] over
\* the positions i at which neither word has the gap character.
C20_DifferentLengthsFail ==
    pc # "corrscore" =>
        IF Len(call.seq1) # Len(call.seq2) THEN pc = "raise"
        ELSE pc = "corrscore_ret" /\ ret.sim = MatrixSum(call.seq1, call.seq2, Len(call.seq1))

\* ------------------------------------------------ claims on the templates
\* the word most recently added to the consensus set when the entries of res
\* have been accepted (the guide word while none has been added)
RECURSIVE LastAdded(_, _, _, _)
LastAdded(res, k, words, word) ==
    IF k > Len(res) THEN word
    ELSE LET x == Slice(aas[res[k][3]], res[k][2], res[k][2] + opts.w)
         IN  IF x \notin words /\ res[k][1] >= opts.score_add_word
             THEN LastAdded(res, k + 1, words \cup {x}, x)
             ELSE LastAdded(res, k + 1, words, word)
GuideWord(st) == Slice(aas[GuideId], st.i, st.i + opts.w)
TemplateAt(st, k) ==
    LastAdded(SubSeq(st.res, 1, k - 1), 2, {GuideWord(st)}, GuideWord(st))
\* the accepted entry k is the search result against the template of its moment
FromTemplate(st, k) ==
    LET r == SearchFor([st EXCEPT !.gword = TemplateAt(st, k)], st.res[k][3])
    IN  r.err = "none" /\ st.res[k][1] = r.sim /\ st.res[k][2] = r.ind

\* C21: every accepted (score, index) of a non-guide sequence is the result
\* of the best-match search of that sequence against the word most recently
\* added to the consensus set when it was accepted (the guide word while none
\* has been added).
C21_AcceptedFromLatestTemplate ==
    pc = "asm" => \A k \in 2..Len(asm.res) : FromTemplate(asm, k)

\* ------------------------------------------------ claims on contradicts
FlukeOfId(a, id) == a.data[CHOOSE k \in 1..Len(a.data) : a.data[k].seqid = id]
\* some sequence with a non-poor fluke in both anchors has its fluke in the
\* anchor of the smaller guide start begin after its fluke in the other one
ContradictsById(x, y) ==
    LET swap == Ref(x).start > Ref(y).start
        a1 == IF swap THEN y ELSE x
        a2 == IF swap THEN x ELSE y
    IN  \E id \in SeqIds(a1.data) \cap SeqIds(a2.data) :
            FlukeOfId(a1, id).start > FlukeOfId(a2, id).start
AnchorPairs == {<<anchors[k], anchors[m]>> : k, m \in 1..Len(anchors)}

\* C22: contradicts(a1, a2) is true exactly when some sequence id with a
\* non-poor fluke in both anchors has its fluke in the anchor of the smaller
\* guide start begin after its fluke in the other anchor; a fluke is only
\* compared with the fluke of the same sequence id, also when the anchors
\* have different sets of non-poor ids.
C22_ContradictsComparesSameSequence ==
    \A p \in AnchorPairs : contradicts(p[1], p[2]) <=> ContradictsById(p[1], p[2])

\* ------------------------------------------------ aggressive removal
\* Anchor.contradicts(a2, aggressive=True): the comparison of the aggressive
\* mode, fluke1.stop <= fluke2.start, on the pairs contradicts compares
contradicts_aggressive(self, other) ==
    LET swap == Ref(self).start > Ref(other).start
        a1 == IF swap THEN other ELSE self
        a2 == IF swap THEN self ELSE other
        s1 == SortedFlukes(a1.data, self.refid)
        s2 == SortedFlukes(a2.data, self.refid)
    IN  ~ \A k \in 1..ZipLen(s1, s2) : s1[k].stop <= s2[k].start

\* the pairs at which the for loop of the removal breaks in aggressive mode
RemovePairsAggressive(l) ==
    LET a1s == ByMinscoreDesc(l)
        a2s == ByMinscoreAsc(l)
    IN  {x \in (1..Len(l)) \X (1..Len(l)) :
            /\ ~(AnchorEq(a1s[x[1]], a2s[x[2]]) \/ minscore(a1s[x[1]]) < minscore(a2s[x[2]]))
            /\ contradicts_aggressive(a1s[x[1]], a2s[x[2]])}

\* remove_contradicting_anchors(aggressive=True): [list, removed]
RECURSIVE remove_aggressive(_, _)
remove_aggressive(l, removed) ==
    IF RemovePairsAggressive(l) = {} THEN [list |-> l, removed |-> removed]
    ELSE LET a2 == ByMinscoreAsc(l)[FirstPair(RemovePairsAggressive(l))[2]]
         IN  remove_aggressive(RemoveFirst(l, a2), Append(removed, a2))

\* core.py line 276 with aggressive_remove=True, the default
RemoveAggressive ==
    /\ pc = "remove"
    /\ \E r \in {remove_aggressive(anchors, <<>>)} :
         /\ anchors' = r.list
         /\ removed_anchors' = AnchorList(r.removed)
    /\ pc' = "return"
    /\ UNCHANGED <<call, ret, aas, opts, asm, scan, locals>>

\* three sequences, the third a residue shorter, with both thresholds at
\* the lower score and a quota of a half
AggrLen == 4
InitThree ==
    /\ pc = "scan"
    /\ call = NoCall /\ ret = NoRet /\ asm = NoAsm /\ scan = NoScan
    /\ anchors = <<>> /\ removed_anchors = NoneList /\ locals = <<>>
    /\ opts \in {o \in RunOptions : o.quota2 = 1 /\ o.score_add_word = 2}
    /\ \E g \in SeqsOf(Residues, AggrLen, AggrLen), s2 \in SeqsOf(Residues, AggrLen, AggrLen),
          s3 \in SeqsOf(Residues, AggrLen - 1, AggrLen - 1) :
         aas = <<g, s2, s3>>

NextAggressive == FindAnchors \/ MergeStep \/ MergeReturn \/ RemoveAggressive \/ ReturnAnchors

SpecAggressive == InitThree /\ [][NextAggressive]_vars

\* the run of find_my_anchors on the same inputs
SpecThree == InitThree /\ [][Next]_vars

\* the flukes of every sequence with a non-poor fluke in both anchors do not
\* overlap and stand in the order of the guide starts
DisjointById(x, y) ==
    LET swap == Ref(x).start > Ref(y).start
        a1 == IF swap THEN y ELSE x
        a2 == IF swap THEN x ELSE y
    IN  \A id \in SeqIds(a1.data) \cap SeqIds(a2.data) :
            FlukeOfId(a1, id).stop <= FlukeOfId(a2, id).start

JoinCalled == pc \in {"join_ret", "raise"}
ProperOverlap(a1, a2) ==
    overlaps_with(a1, a2) /\ ~Contains(a1, a2) /\ ~Contains(a2, a1)

JoinedGood(f, f1, f2) ==
    LET first == IF f1.start <= f2.start THEN f1 ELSE f2
        later == IF f1.start <= f2.start THEN f2 ELSE f1
        union_len == Max(f1.stop, f2.stop) - Min(f1.start, f2.start)
        overlap_len == FlukeLen(f1) + FlukeLen(f2) - union_len
    IN  /\ f.start = Min(f1.start, f2.start)
        /\ f.stop = Max(f1.stop, f2.stop)
        /\ Len(f.word) = f.stop - f.start
        /\ overlap_len \in 0..Len(later.word)
        /\ f.word = first.word \o SubSeq(later.word, overlap_len + 1, Len(later.word))

\* C25: the join of two nicely-overlapping anchors of which neither guide
\* interval holds the other has, for every sequence with non-poor flukes, one
\* fluke from the smaller start to the larger stop whose word, stop - start
\* long, is the earlier word followed by the later word without its first
\* len1 + len2 - union_len characters; the joined anchor keeps the guide id of
\* the receiver.
C25_JoinedFlukeIsUnion ==
    (pc = "join_ret" /\ ProperOverlap(locals[1], locals[2])) =>
        /\ anchors[1].refid = locals[1].refid
        /\ SeqIds(anchors[1].data) = SeqIds(locals[1].data)
        /\ Len(anchors[1].data) = Cardinality(SeqIds(locals[1].data))
        /\ \A id \in SeqIds(locals[1].data) :
               JoinedGood(FlukeOfId(anchors[1], id), FlukeOfId(locals[1], id),
                          FlukeOfId(locals[2], id))

\* a join of two good flukes of the second sequence that overlap in a part
C25_Witness ==
    /\ pc = "join_ret" /\ ProperOverlap(locals[1], locals[2])
    /\ 2 \in SeqIds(locals[1].data)
    /\ FlukeLen(FlukeOfId(anchors[1], 2)) < FlukeLen(FlukeOfId(locals[1], 2)) + FlukeLen(FlukeOfId(locals[2], 2))
    /\ FlukeOfId(locals[1], 2).start > FlukeOfId(locals[2], 2).start

\* ------------------------------------------------ claims on the built anchor
\* the score with which the sequence id was accepted; for the guide the score
\* of the guide word against itself
AcceptedScore(st, id) ==
    IF id = GuideId THEN corrscore(GuideWord(st), GuideWord(st))
    ELSE st.res[CHOOSE k \in 1..Len(st.res) : st.res[k][3] = id][1]
AsmReturned == pc = "asm" /\ asm.pc = "done"

\* C26: in an anchor anchor_at_pos returns, a fluke is poor exactly when the
\* score with which its sequence was accepted (for the guide, the score of the
\* guide word against itself) is below score_add_word.
C26_PoorIffAcceptedBelow ==
    AsmReturned =>
        /\ SeqIds(AllFlukes(asm.anchor)) = 1..NSeqs
        /\ Len(AllFlukes(asm.anchor)) = NSeqs
        /\ \A k \in 1..NSeqs :
               LET f == AllFlukes(asm.anchor)[k]
               IN  ~f.above_thres <=> AcceptedScore(asm, f.seqid) < opts.score_add_word

\* an anchor with a good fluke and with a poor fluke that was accepted with a
\* score not below thr_score_add_anchor
C26_Witness ==
    /\ AsmReturned
    /\ Len(asm.anchor.data) >= 2
    /\ \E k \in 1..Len(asm.anchor.missing) :
           AcceptedScore(asm, asm.anchor.missing[k].seqid) >= opts.thr_score_add_anchor

\* ------------------------------------------------ termination of the assembly
AsmEnded == pc = "asm" /\ asm.pc \in {"done", "none", "raise"}
LongEnough == \A id \in 1..NSeqs : Len(aas[id]) >= opts.w
InHeap(st, id) == \E k \in 1..Len(st.toadd) : st.toadd[k][3] = id
\* a pass of the outer loop is entered with a pending sequence, and in the
\* inner loop the heap holds a candidate of every pending sequence
PendingInHeap ==
    /\ asm.pc = "for" => asm.todo # {}
    /\ asm.pc = "pop" => \A id \in asm.todo : InHeap(asm, id)
\* the inner loop is left for the next pass with fewer pending sequences
Serviced ==
    (asm.pc = "pop" /\ asm'.pc \in {"for", "build"}) =>
        /\ asm'.todo # asm.todo \/ asm.todo = {}
        /\ asm'.todo \subseteq asm.todo

\* a number that every step of the call makes smaller: the pending sequences
\* count first, then the place in the pass and the length of the heap (the
\* heap gets one candidate per pending sequence and pass, fewer than
\* NSeqs * NSeqs in all)
Variant(st) ==
    IF st.pc = "for" THEN 2 + Cardinality(st.todo) * NSeqs * NSeqs + NSeqs * NSeqs - 1
    ELSE IF st.pc = "pop" THEN 2 + Cardinality(st.todo) * NSeqs * NSeqs + Len(st.toadd)
    ELSE IF st.pc = "build" THEN 1
    ELSE 0
Progresses == Variant(asm') < Variant(asm)

\* C27: anchor_at_pos terminates when every sequence is at least w long: a
\* pass of the outer loop aborts or services a pending sequence, and when the
\* heap runs empty without a restart no sequence is pending, so that the
\* assertion len(todo) == 0 never fails.
C27_AssemblyTerminates ==
    /\ [](PendingInHeap /\ asm.err # "AssertionError")
    /\ [](LongEnough => asm.err \in {"none", "StatisticsError"})
    /\ [](AsmEnded \/ (AsmRunning(asm) /\ Variant(asm) > 0))
    /\ [][Serviced /\ Progresses]_vars

\* a call that ends with an anchor after a restart of the outer loop
C27_Witness ==
    /\ AsmReturned /\ LongEnough
    /\ Cardinality(asm.words) >= 2
    /\ asm.toadd # <<>>

\* ------------------------------------------------ claims on the removed list
\* x contradicts an anchor of l whose minscore is not lower than its own
RemovedThrough(x, l) ==
    \E k \in 1..Len(l) : contradicts(l[k], x) /\ minscore(l[k]) >= minscore(x)

\* C28: every anchor remove_contradicting_anchors puts into the removed list
\* contradicts an anchor of the final list of survivors whose minscore is not
\* lower than its own.
C28_RemovedThroughSurvivor ==
    Removal => \A k \in 1..Len(removed_anchors.data) :
                   RemovedThrough(removed_anchors.data[k], anchors)

\* two anchors are removed and one of them contradicts the other one too
C28_Witness ==
    /\ Removal /\ pc = "done"
    /\ \E k, m \in 1..Len(removed_anchors.data) :
           /\ k # m
           /\ contradicts(removed_anchors.data[m], removed_anchors.data[k])
           /\ minscore(removed_anchors.data[m]) >= minscore(removed_anchors.data[k])

\* ------------------------------------------------ claims on the flukes
\* the fluke lies in its sequence and holds the residues of its interval
FlukeInSequence(f) ==
    /\ 0 <= f.start /\ f.start < f.stop /\ f.stop <= Len(aas[f.seqid])
    /\ f.word = SubSeq(aas[f.seqid], f.start + 1, f.stop)

\* C29: every non-poor fluke of every anchor of the scan, and of every anchor
\* the merges make of them, has 0 <= start < stop <= len(sequence) and the
\* word sequence[start:stop].
C29_GoodFlukesAreSubstrings ==
    \A k \in 1..Len(anchors) : \A m \in 1..Len(anchors[k].data) :
        FlukeInSequence(anchors[k].data[m])

\* an anchor made by two merges, with a good fluke of a sequence that is not
\* the guide
C29_Witness ==
    /\ Merged
    /\ \E k \in 1..Len(anchors) : \E m \in 1..Len(anchors[k].data) :
           /\ anchors[k].data[m].seqid # GuideId
           /\ FlukeLen(anchors[k].data[m]) >= opts.w + 2

\* ------------------------------------------------ claims on the offsets
\* all flukes of all anchors of a list, as a set
FlukesOfList(l) ==
    UNION {{AllFlukes(l[k])[m] : m \in 1..Len(AllFlukes(l[k]))} : k \in 1..Len(l)}
DivOf(no_cds) == IF no_cds THEN 1 ELSE 3
\* the absolute positions offset + div * start and offset + div * stop
AbsPositions(F, div) ==
    {<<f.seqid, f.offset + div * f.start, f.offset + div * f.stop>> : f \in F}
InputFlukes == FlukesOfList(locals[1].data) \cup FlukesOfList(locals[2].data)
\* the offset the first input list has for the sequence
FirstOffset(id) ==
    IF call.convert_nt THEN 0
    ELSE (CHOOSE f \in FlukesOfList(locals[1].data) : f.seqid = id).offset
OffsetMisfit ==
    \E f \in InputFlukes : (f.offset - FirstOffset(f.seqid)) % DivOf(locals[1].no_cds) # 0

\* C30: combine keeps the absolute position offset + div * start and
\* offset + div * stop of every fluke (div is 3 for CDS lists and 1 for no_cds
\* lists), every fluke of a sequence carries the offset of the first input
\* list in the result, and combine fails when an offset difference is no
\* multiple of div.
C30_PositionsKept ==
    /\ pc = "combine_ret" =>
           /\ AbsPositions(FlukesOfList(anchors), DivOf(call.convert_nt \/ locals[1].no_cds))
                = AbsPositions(InputFlukes, DivOf(locals[1].no_cds))
           /\ \A f \in FlukesOfList(anchors) : f.offset = FirstOffset(f.seqid)
    /\ (pc \in {"combine_ret", "raise"} /\ ~call.convert_nt /\ OffsetMisfit) => pc = "raise"

====
